---- MODULE Spec2Model ----
(***************************************************************************)
(* Model of the example HTTP/3 + HTTPS server (package main: main,         *)
(* ListenAndServe, setupHandler, generatePRData), of the congestion-control*)
(* factory (congestion.NewCongestionHandler) and of the packet-handler     *)
(* factory (ackhandler.NewAckHandler).                                     *)
(*                                                                         *)
(* The statements of ListenAndServe are operators on the record of one     *)
(* call (LoadCerts, ResolveUDP, ..., SelectH, SelectQ, QuicClose, Return). *)
(*                                                                         *)
(* SpecLAS : one call of ListenAndServe, statement by statement, with the  *)
(*           two server goroutines it starts racing on the unbuffered      *)
(*           channels hErr and qErr.                                       *)
(* Spec    : the server process: main's start-up checks, the launching     *)
(*           loop and one goroutine per bind target. A goroutine runs the  *)
(*           statements of ListenAndServe from one blocking point to the   *)
(*           next in one step.                                             *)
(* FairSpec: Spec with the Go scheduler's fairness for runnable goroutines.*)
(* SpecCC  : calls of the factory NewCongestionHandler.                    *)
(* SpecPR  : calls of generatePRData.                                      *)
(* SpecWeb : one request answered by the mux of setupHandler.              *)
(* SpecAck : calls of ackhandler.NewAckHandler.                            *)
(***************************************************************************)
EXTENDS Integers, Sequences, FiniteSets, TLC

\* ------------------------------------------------------------------ bounds
\* Largest number of bind targets given with -bind.
MaxBinds == 2
\* Largest number of congestion handlers constructed in SpecCC.
MaxConns == 2

\* The goroutines main can launch, one per bind target.
Procs == 1..MaxBinds

\* ------------------------------------------------------- program constants
\* The nil error.
Nil == "nil"

\* congestion.CongestionControlType (iota constants).
NewRenoControlType == 0
CubicControlType == 1
BbrControlType == 2

\* congestion.HystartControlType (iota constants).
HystartTypeStandard == 0
HystartTypePlusPlus == 1
HystartTypeNone == 2

\* var congestionMap, as a function from flag value to control type.
congestionMap ==
    [n \in {"newreno", "cubic"} |->
        IF n = "newreno" THEN NewRenoControlType ELSE CubicControlType]

\* var hystartMap.
hystartMap ==
    [n \in {"standard", "plusplus", "none"} |->
        CASE n = "standard" -> HystartTypeStandard
          [] n = "plusplus" -> HystartTypePlusPlus
          [] OTHER -> HystartTypeNone]

\* The exit status of a process that has not exited.
Running == -1

\* bs = binds{"localhost:6121"} when no -bind is given.
DefaultBind == "localhost:6121"

\* ------------------------------------------------------------------ inputs
\* What a -cert / -key path can name: "" is the empty flag, "missing" a path
\* os.Stat reports as not existing, "invalid" a file that exists but that
\* tls.LoadX509KeyPair cannot read or parse, "valid" a usable PEM file.
FileStates == {"", "missing", "invalid", "valid"}

\* Values of -congestion and of -hystart: the keys of congestionMap and a
\* name that is none ("bbr"); the default of -hystart and a name that is no
\* key of hystartMap.
CongestionNames == {"newreno", "cubic", "bbr"}
HystartNames == {"standard", "bogus"}

\* The k-th bind target of the command line.
AddrOf(k) == "host" \o ToString(k) \o ":6121"

\* The value binds.Set leaves in bs for n comma-separated distinct targets
\* (n = 0: the flag is absent).
BindList(n) == [k \in 1..n |-> AddrOf(k)]

Range(s) == {s[k] : k \in 1..Len(s)}

\* The listening faults of the environment: at most one address is faulty,
\* and the call named by kind fails for it.
FaultKinds == {"resolveudp", "listenudp", "resolvetcp", "listentcp"}
NoFault == [addr |-> "", kind |-> "none"]
Faults(targets) == {NoFault} \cup [addr : targets, kind : FaultKinds]

\* What http.Server.Serve and http3.Server.Serve can return.
HResults == {Nil, "errHTTP"}
QResults == {Nil, "errQUIC"}

\* ------------------------------------------------------------------- state
VARIABLES
    certFile, keyFile,      \* flags -cert, -key
    congestionAlgo,         \* flag -congestion
    hystart,                \* flag -hystart
    bs,                     \* binds
    fault,                  \* environment: the faulty address, if any
    mainpc,                 \* position of main
    exitCode,               \* process exit status, Running before the exit
    quicConf,               \* quicConf.Congestion
    wg,                     \* sync.WaitGroup counter
    b,                      \* the loop variable b of `for _, b := range bs`
    next,                   \* index of the next element the loop visits
    lis,                    \* per goroutine, its ListenAndServe call
    out,                    \* lines written by fmt.Println: <<goroutine, error>>
    senders,                \* SpecCC: the congestion handlers constructed
    generated,              \* SpecWeb: the calls of generatePRData made so far
    served,                 \* SpecWeb: the last request the mux answered
    pairs                   \* SpecAck: the results of the NewAckHandler calls

inputVars == <<certFile, keyFile, congestionAlgo, hystart, fault>>
mainVars == <<bs, mainpc, exitCode, quicConf, wg, b, next>>
\* The state of the request handler and of the packet-handler factory.
webVars == <<generated, served, pairs>>
vars == <<inputVars, mainVars, lis, out, senders, webVars>>

\* A goroutine main has not started yet. The fields of a goroutine:
\*   pc                        its position
\*   bCap                      its captured copy of the loop variable
\*   addr                      the addr argument of its ListenAndServe call
\*   err                       the error ListenAndServe returns
\*   udpConn, tcpConn, tlsConn the sockets: "none", "open", "closed"
\*   defers                    the stack of deferred calls of ListenAndServe
\*   hState, hVal              goroutine `hErr <- httpServer.Serve(tlsConn)`
\*   qState, qVal              goroutine `qErr <- quicServer.Serve(udpConn)`
\*   calls                     the calls made so far, in order
Unborn ==
    [pc |-> "unborn", bCap |-> "", addr |-> "", err |-> Nil,
     udpConn |-> "none", tcpConn |-> "none", tlsConn |-> "none",
     defers |-> <<>>,
     hState |-> "idle", hVal |-> Nil, qState |-> "idle", qVal |-> Nil,
     calls |-> <<>>]

\* The mux has answered no request yet: no handler was chosen, and the
\* response has neither a status nor a body.
NoRequest ==
    [www |-> "", uri |-> <<>>, handler |-> "none", status |-> 0, body |-> <<>>]

\* Nothing was generated, served or paired yet.
WebIdle ==
    /\ generated = <<>>
    /\ served = NoRequest
    /\ pairs = <<>>

\* -------------------------------------------------------------------- Init
\* The process right after flag.Parse(); quicConf := &quic.Config{} is the
\* zero value.
Init ==
    /\ certFile \in FileStates
    /\ keyFile \in FileStates
    /\ congestionAlgo \in CongestionNames
    /\ hystart \in HystartNames
    /\ bs \in {BindList(n) : n \in 0..MaxBinds}
    /\ fault \in Faults(IF bs = <<>> THEN {DefaultBind} ELSE Range(bs))
    /\ mainpc = "checkcert"
    /\ exitCode = Running
    /\ quicConf = [ControlType |-> 0, Hystart |-> 0]
    /\ wg = 0
    /\ b = ""
    /\ next = 1
    /\ lis = [i \in Procs |-> Unborn]
    /\ out = <<>>
    /\ senders = <<>>
    /\ WebIdle

\* The process runs until main returns or os.Exit is called.
Alive == mainpc \notin {"done", "exited"}

\* -------------------------------------------------------------------- main
\* os.Exit(1)
Exit1 ==
    /\ mainpc' = "exited"
    /\ exitCode' = 1

\* Lines 214-220: the -cert checks.
CheckCert ==
    /\ mainpc = "checkcert"
    /\ IF certFile = "" \/ certFile = "missing"
       THEN Exit1
       ELSE mainpc' = "checkkey" /\ UNCHANGED exitCode
    /\ UNCHANGED <<inputVars, bs, quicConf, wg, b, next, lis, out, senders, webVars>>

\* Lines 222-228: the -key checks.
CheckKey ==
    /\ mainpc = "checkkey"
    /\ IF keyFile = "" \/ keyFile = "missing"
       THEN Exit1
       ELSE mainpc' = "binds" /\ UNCHANGED exitCode
    /\ UNCHANGED <<inputVars, bs, quicConf, wg, b, next, lis, out, senders, webVars>>

\* Lines 230-232: the default bind target.
DefaultBinds ==
    /\ mainpc = "binds"
    /\ bs' = IF Len(bs) = 0 THEN <<DefaultBind>> ELSE bs
    /\ mainpc' = "congestion"
    /\ UNCHANGED <<inputVars, exitCode, quicConf, wg, b, next, lis, out, senders, webVars>>

\* Lines 235-239: congestionMap[*congestionAlgo].
LookupCongestion ==
    /\ mainpc = "congestion"
    /\ IF congestionAlgo \in DOMAIN congestionMap
       THEN mainpc' = "hystart" /\ UNCHANGED exitCode
       ELSE Exit1
    /\ UNCHANGED <<inputVars, bs, quicConf, wg, b, next, lis, out, senders, webVars>>

\* The lookup without the test of `found`: a missing key reads as the zero
\* value.
LookupHystart_NoCheck ==
    /\ mainpc = "hystart"
    /\ quicConf' = [ControlType |-> congestionMap[congestionAlgo],
                    Hystart |-> IF hystart \in DOMAIN hystartMap
                                THEN hystartMap[hystart] ELSE 0]
    /\ mainpc' = "wgadd"
    /\ UNCHANGED exitCode
    /\ UNCHANGED <<inputVars, bs, wg, b, next, lis, out, senders, webVars>>

\* Lines 240-248: hystartMap[*hystart], then quicConf.Congestion.
LookupHystart ==
    /\ mainpc = "hystart"
    /\ IF hystart \in DOMAIN hystartMap
       THEN /\ quicConf' = [ControlType |-> congestionMap[congestionAlgo],
                            Hystart |-> hystartMap[hystart]]
            /\ mainpc' = "wgadd"
            /\ UNCHANGED exitCode
       ELSE Exit1 /\ UNCHANGED quicConf
    /\ UNCHANGED <<inputVars, bs, wg, b, next, lis, out, senders, webVars>>

\* Lines 262-263: wg.Add(len(bs)).
WgAdd ==
    /\ mainpc = "wgadd"
    /\ wg' = wg + Len(bs)
    /\ mainpc' = "loop"
    /\ UNCHANGED <<inputVars, bs, exitCode, quicConf, b, next, lis, out, senders, webVars>>

\* Lines 264-266 and 276: one iteration of the loop assigns the (single,
\* shared) loop variable b, copies it to bCap and starts the goroutine.
LoopIter ==
    /\ mainpc = "loop"
    /\ next <= Len(bs)
    /\ b' = bs[next]
    /\ lis' = [lis EXCEPT ![next] = [@ EXCEPT !.pc = "start", !.bCap = bs[next]]]
    /\ next' = next + 1
    /\ UNCHANGED <<inputVars, bs, mainpc, exitCode, quicConf, wg, out, senders, webVars>>

\* The loop ends; b keeps the last element.
LoopEnd ==
    /\ mainpc = "loop"
    /\ next > Len(bs)
    /\ mainpc' = "wait"
    /\ UNCHANGED <<inputVars, bs, exitCode, quicConf, wg, b, next, lis, out, senders, webVars>>

\* main returns without waiting for the counter to reach zero.
WgWait_NoWait ==
    /\ mainpc = "wait"
    /\ mainpc' = "done"
    /\ exitCode' = 0
    /\ UNCHANGED <<inputVars, bs, quicConf, wg, b, next, lis, out, senders, webVars>>

\* Lines 277-278: wg.Wait() returns once the counter is zero; main returns.
WgWait ==
    /\ mainpc = "wait"
    /\ wg = 0
    /\ mainpc' = "done"
    /\ exitCode' = 0
    /\ UNCHANGED <<inputVars, bs, quicConf, wg, b, next, lis, out, senders, webVars>>

MainStep ==
    \/ CheckCert
    \/ CheckKey
    \/ DefaultBinds
    \/ LookupCongestion
    \/ LookupHystart
    \/ WgAdd
    \/ LoopIter
    \/ LoopEnd
    \/ WgWait

\* ---------------------------------------------------------- ListenAndServe
\* An address is in use when a socket of this process is open on it.
UDPInUse(a) == \E j \in Procs : lis[j].udpConn = "open" /\ lis[j].addr = a
TCPInUse(a) == \E j \in Procs : lis[j].tcpConn = "open" /\ lis[j].addr = a

\* The environment makes the call named by kind fail for address a.
Faulty(a, kind) == fault = [addr |-> a, kind |-> kind]

\* The call c is made.
Called(L, c) == [L EXCEPT !.calls = Append(@, c)]

\* `return e` before the select: the deferred calls run next.
Fail(L, e) == [L EXCEPT !.err = e, !.pc = "return"]

\* LoadCerts that goes on to the sockets whatever LoadX509KeyPair returned.
LoadCerts_IgnoresError(L) ==
    [Called(L, "LoadX509KeyPair") EXCEPT !.pc = "resolveudp"]

\* Lines 121-131: tls.LoadX509KeyPair(certFile, keyFile).
LoadCerts(L) ==
    IF certFile = "valid" /\ keyFile = "valid"
    THEN [Called(L, "LoadX509KeyPair") EXCEPT !.pc = "resolveudp"]
    ELSE Fail(Called(L, "LoadX509KeyPair"), "errLoadX509KeyPair")

\* Lines 134-137: net.ResolveUDPAddr.
ResolveUDP(L) ==
    IF Faulty(L.addr, "resolveudp")
    THEN Fail(Called(L, "ResolveUDPAddr"), "errResolveUDPAddr")
    ELSE [Called(L, "ResolveUDPAddr") EXCEPT !.pc = "listenudp"]

\* ListenUDP without the defer of udpConn.Close().
ListenUDP_NoDefer(L) ==
    IF Faulty(L.addr, "listenudp") \/ UDPInUse(L.addr)
    THEN Fail(Called(L, "ListenUDP"), "errListenUDP")
    ELSE [Called(L, "ListenUDP") EXCEPT !.udpConn = "open", !.pc = "resolvetcp"]

\* Lines 138-142: net.ListenUDP and defer udpConn.Close().
ListenUDP(L) ==
    IF Faulty(L.addr, "listenudp") \/ UDPInUse(L.addr)
    THEN Fail(Called(L, "ListenUDP"), "errListenUDP")
    ELSE [Called(L, "ListenUDP") EXCEPT
             !.udpConn = "open",
             !.defers = Append(@, "udpConn.Close"),
             !.pc = "resolvetcp"]

\* Lines 144-147: net.ResolveTCPAddr.
ResolveTCP(L) ==
    IF Faulty(L.addr, "resolvetcp")
    THEN Fail(Called(L, "ResolveTCPAddr"), "errResolveTCPAddr")
    ELSE [Called(L, "ResolveTCPAddr") EXCEPT !.pc = "listentcp"]

\* Lines 148-152: net.ListenTCP and defer tcpConn.Close().
ListenTCP(L) ==
    IF Faulty(L.addr, "listentcp") \/ TCPInUse(L.addr)
    THEN Fail(Called(L, "ListenTCP"), "errListenTCP")
    ELSE [Called(L, "ListenTCP") EXCEPT
             !.tcpConn = "open",
             !.defers = Append(@, "tcpConn.Close"),
             !.pc = "startservers"]

\* StartServers without the defer of tlsConn.Close().
StartServers_NoDefer(L) ==
    [L EXCEPT
        !.tlsConn = "open",
        !.hState = "running",
        !.qState = "running",
        !.calls = @ \o <<"NewListener", "httpServer.Serve", "quicServer.Serve">>,
        !.pc = "select"]

\* Lines 154-181: tls.NewListener and defer tlsConn.Close(); the two servers
\* are built and the two goroutines calling Serve are started.
StartServers(L) ==
    [L EXCEPT
        !.tlsConn = "open",
        !.defers = Append(@, "tlsConn.Close"),
        !.hState = "running",
        !.qState = "running",
        !.calls = @ \o <<"NewListener", "httpServer.Serve", "quicServer.Serve">>,
        !.pc = "select"]

\* Line 177: httpServer.Serve(tlsConn) returns r; the goroutine then blocks
\* sending r on the unbuffered channel hErr.
HServeReturns(L, r) == [L EXCEPT !.hState = "sending", !.hVal = r]

\* Line 177: while httpServer.Serve(tlsConn) runs it accepts the connections
\* that arrive on tlsConn, the TLS listener over the TCP socket: it can
\* accept one as long as both are open.
CanAccept(L) ==
    L.hState = "running" /\ L.tlsConn = "open" /\ L.tcpConn = "open"

\* Line 180: quicServer.Serve(udpConn) returns r; the goroutine then blocks
\* sending r on the unbuffered channel qErr.
QServeReturns(L, r) == [L EXCEPT !.qState = "sending", !.qVal = r]

\* SelectH without the call of quicServer.Close: it returns at once.
SelectH_NoQuicClose(L) ==
    [Called(L, "recv hErr") EXCEPT
        !.err = L.hVal, !.hState = "done", !.pc = "return"]

\* Lines 183-184: the select receives from hErr.
SelectH(L) ==
    [Called(L, "recv hErr") EXCEPT
        !.err = L.hVal, !.hState = "done", !.pc = "quicclose"]

\* SelectQ that stops the stream server before it returns.
SelectQ_ClosesHTTP(L) ==
    [Called(Called(L, "recv qErr"), "httpServer.Close") EXCEPT
        !.err = L.qVal, !.qState = "done", !.pc = "return"]

\* SelectQ that drops the error it received.
SelectQ_DropsError(L) ==
    [Called(L, "recv qErr") EXCEPT
        !.err = Nil, !.qState = "done", !.pc = "return"]

\* Lines 183, 187-189: the select receives from qErr and returns.
SelectQ(L) ==
    [Called(L, "recv qErr") EXCEPT
        !.err = L.qVal, !.qState = "done", !.pc = "return"]

\* Lines 185-186: quicServer.Close(), then return err.
QuicClose(L) == [Called(L, "quicServer.Close") EXCEPT !.pc = "return"]

\* One deferred call d. Closing the TLS listener closes the TCP listener it
\* wraps.
RunDeferred(L, d) ==
    CASE d = "tlsConn.Close" ->
            [Called(L, d) EXCEPT !.tlsConn = "closed", !.tcpConn = "closed"]
      [] d = "tcpConn.Close" -> [Called(L, d) EXCEPT !.tcpConn = "closed"]
      [] d = "udpConn.Close" -> [Called(L, d) EXCEPT !.udpConn = "closed"]

\* RunDefers that runs the deferred calls in the order they were deferred.
RECURSIVE RunDefers_FirstFirst(_)
RunDefers_FirstFirst(L) ==
    IF L.defers = <<>> THEN L
    ELSE RunDefers_FirstFirst([RunDeferred(L, Head(L.defers)) EXCEPT
                                  !.defers = Tail(@)])

\* Lines 142, 152, 155: on return the deferred calls run, last one first.
RECURSIVE RunDefers(_)
RunDefers(L) ==
    IF L.defers = <<>> THEN L
    ELSE RunDefers([RunDeferred(L, L.defers[Len(L.defers)]) EXCEPT
                       !.defers = SubSeq(@, 1, Len(@) - 1)])

\* Return that first receives what a server goroutine is waiting to send.
Return_Drains(L) ==
    [Called(RunDefers(L), "return") EXCEPT
        !.pc = "returned",
        !.hState = IF @ = "sending" THEN "done" ELSE @,
        !.qState = IF @ = "sending" THEN "done" ELSE @]

\* Lines 125, 136, 140, 146, 150, 186, 189: ListenAndServe returns; its
\* deferred calls run and the goroutine of line 266 has the result.
Return(L) == [Called(RunDefers(L), "return") EXCEPT !.pc = "returned"]

\* The statement at the position of L, for the positions where the call
\* does not wait for anything.
LocalPcs == {"loadcert", "resolveudp", "listenudp", "resolvetcp", "listentcp",
             "startservers", "quicclose", "return"}

Statement(L) ==
    CASE L.pc = "loadcert" -> LoadCerts(L)
      [] L.pc = "resolveudp" -> ResolveUDP(L)
      [] L.pc = "listenudp" -> ListenUDP(L)
      [] L.pc = "resolvetcp" -> ResolveTCP(L)
      [] L.pc = "listentcp" -> ListenTCP(L)
      [] L.pc = "startservers" -> StartServers(L)
      [] L.pc = "quicclose" -> QuicClose(L)
      [] L.pc = "return" -> Return(L)

\* The call runs until it waits in the select or has returned.
RECURSIVE RunToBlock(_)
RunToBlock(L) == IF L.pc \in LocalPcs THEN RunToBlock(Statement(L)) ELSE L

\* ------------------------------------------- SpecLAS: one ListenAndServe call
\* The goroutine whose call SpecLAS follows.
TheCall == CHOOSE i \in Procs : \A j \in Procs : i <= j

\* The server process but for this call is not part of SpecLAS.
MainParked ==
    /\ congestionAlgo = "newreno"
    /\ hystart = "standard"
    /\ bs = <<>>
    /\ mainpc = "off"
    /\ exitCode = Running
    /\ quicConf = [ControlType |-> 0, Hystart |-> 0]
    /\ wg = 0
    /\ b = ""
    /\ next = 1
    /\ out = <<>>

\* ListenAndServe(addr, certFile, keyFile, www, quicConf) is called.
InitLAS ==
    /\ certFile \in FileStates
    /\ keyFile \in FileStates
    /\ fault \in Faults({AddrOf(1)})
    /\ MainParked
    /\ lis = [i \in Procs |->
                IF i = TheCall
                THEN [Unborn EXCEPT !.pc = "loadcert", !.addr = AddrOf(1),
                                    !.bCap = AddrOf(1),
                                    !.calls = <<"ListenAndServe">>]
                ELSE Unborn]
    /\ senders = <<>>
    /\ WebIdle

\* The call executes the statement at pc.
AtPc(pc) ==
    /\ lis[TheCall].pc = pc
    /\ lis' = [lis EXCEPT ![TheCall] = Statement(@)]
    /\ UNCHANGED <<inputVars, mainVars, out, senders, webVars>>

StepLoadCerts == AtPc("loadcert")
StepResolveUDP == AtPc("resolveudp")
StepListenUDP == AtPc("listenudp")
StepResolveTCP == AtPc("resolvetcp")
StepListenTCP == AtPc("listentcp")
StepStartServers == AtPc("startservers")
StepQuicClose == AtPc("quicclose")
StepReturn == AtPc("return")

\* The stream server's Serve returns.
StepHServeReturns ==
    /\ lis[TheCall].hState = "running"
    /\ \E r \in HResults : lis' = [lis EXCEPT ![TheCall] = HServeReturns(@, r)]
    /\ UNCHANGED <<inputVars, mainVars, out, senders, webVars>>

\* The datagram server's Serve returns.
StepQServeReturns ==
    /\ lis[TheCall].qState = "running"
    /\ \E r \in QResults : lis' = [lis EXCEPT ![TheCall] = QServeReturns(@, r)]
    /\ UNCHANGED <<inputVars, mainVars, out, senders, webVars>>

\* The select takes the case of hErr: a sender is waiting on it.
StepSelectH ==
    /\ lis[TheCall].pc = "select"
    /\ lis[TheCall].hState = "sending"
    /\ lis' = [lis EXCEPT ![TheCall] = SelectH(@)]
    /\ UNCHANGED <<inputVars, mainVars, out, senders, webVars>>

\* The select takes the case of qErr: a sender is waiting on it.
StepSelectQ ==
    /\ lis[TheCall].pc = "select"
    /\ lis[TheCall].qState = "sending"
    /\ lis' = [lis EXCEPT ![TheCall] = SelectQ(@)]
    /\ UNCHANGED <<inputVars, mainVars, out, senders, webVars>>

NextLAS ==
    \/ StepLoadCerts
    \/ StepResolveUDP
    \/ StepListenUDP
    \/ StepResolveTCP
    \/ StepListenTCP
    \/ StepStartServers
    \/ StepHServeReturns
    \/ StepQServeReturns
    \/ StepSelectH
    \/ StepSelectQ
    \/ StepQuicClose
    \/ StepReturn

SpecLAS == InitLAS /\ [][NextLAS]_vars

\* --------------------------------------------- Spec: the goroutines of main
\* Lines 266-270: the goroutine logs bCap and calls ListenAndServe(b, ...),
\* reading the loop variable b that main may have reassigned meanwhile; the
\* call runs until it waits in the select or returns an error.
GoStart(i) ==
    /\ lis[i].pc = "start"
    /\ lis' = [lis EXCEPT ![i] =
                 RunToBlock([Called(@, "ListenAndServe") EXCEPT
                                !.addr = b, !.pc = "loadcert"])]
    /\ UNCHANGED <<inputVars, mainVars, out, senders, webVars>>

\* Lines 177, 183-186: the stream server's Serve returns r and the select
\* receives it; the call runs until it has returned.
EndH(i) ==
    /\ lis[i].pc = "select"
    /\ lis[i].hState = "running"
    /\ \E r \in HResults :
          lis' = [lis EXCEPT ![i] = RunToBlock(SelectH(HServeReturns(@, r)))]
    /\ UNCHANGED <<inputVars, mainVars, out, senders, webVars>>

\* Lines 180, 183, 187-189: the datagram server's Serve returns r and the
\* select receives it; the call runs until it has returned.
EndQ(i) ==
    /\ lis[i].pc = "select"
    /\ lis[i].qState = "running"
    /\ \E r \in QResults :
          lis' = [lis EXCEPT ![i] = RunToBlock(SelectQ(QServeReturns(@, r)))]
    /\ UNCHANGED <<inputVars, mainVars, out, senders, webVars>>

\* GoPrint without the test of err: a nil result is printed too.
GoPrint_PrintsNil(i) ==
    /\ lis[i].pc = "returned"
    /\ out' = Append(out, <<i, lis[i].err>>)
    /\ lis' = [lis EXCEPT ![i].pc = "wgdone"]
    /\ UNCHANGED <<inputVars, mainVars, senders, webVars>>

\* Lines 271-273: fmt.Println(err) when err != nil.
GoPrint(i) ==
    /\ lis[i].pc = "returned"
    /\ out' = IF lis[i].err # Nil THEN Append(out, <<i, lis[i].err>>) ELSE out
    /\ lis' = [lis EXCEPT ![i].pc = "wgdone"]
    /\ UNCHANGED <<inputVars, mainVars, senders, webVars>>

\* Line 274: wg.Done().
GoDone(i) ==
    /\ lis[i].pc = "wgdone"
    /\ wg' = wg - 1
    /\ lis' = [lis EXCEPT ![i].pc = "done"]
    /\ UNCHANGED <<inputVars, bs, mainpc, exitCode, quicConf, b, next, out, senders, webVars>>

\* The steps of the goroutine of line 266 that wait for nothing.
GoStep(i) ==
    \/ GoStart(i)
    \/ GoPrint(i)
    \/ GoDone(i)

\* One of the servers of listener i ends.
ServeEnds(i) ==
    \/ EndH(i)
    \/ EndQ(i)

Next ==
    /\ Alive
    /\ \/ MainStep
       \/ \E i \in Procs : GoStep(i)
       \/ \E i \in Procs : ServeEnds(i)

Spec == Init /\ [][Next]_vars

\* The Go scheduler runs every runnable goroutine eventually: main keeps
\* taking steps while it can, and so do the launched goroutines (stated for
\* them jointly, which the fairness to each of them implies). When a server's
\* Serve returns is up to the network and is not a matter of scheduling.
FairSpec ==
    /\ Spec
    /\ WF_vars(Alive /\ MainStep)
    /\ WF_vars(Alive /\ \E i \in Procs : GoStep(i))

\* ------------------------------------------------- congestion (the factory)
\* The CongestionOptions a caller can pass.
ControlTypes == {NewRenoControlType, CubicControlType, BbrControlType}
HystartTypes == {HystartTypeStandard, HystartTypePlusPlus, HystartTypeNone}
CongestionOptions == [ControlType : ControlTypes, Hystart : HystartTypes]

\* The initial maximum datagram sizes and RTT statistics objects a connection
\* passes to the factory.
DatagramSizes == {1200, 1252, 1452}
RTTStatsIds == {"rttA", "rttB"}

\* Initial congestion window of the cubic-family sender, in datagrams.
InitialCongestionWindowPackets == 32

\* func hystartTypeToString
hystartTypeToString(t) ==
    CASE t = HystartTypeStandard -> "standard"
      [] t = HystartTypePlusPlus -> "++"
      [] t = HystartTypeNone -> "none"
      [] OTHER -> ""

\* func congestionTypeToString
congestionTypeToString(t) ==
    CASE t = CubicControlType -> "Cubic"
      [] t = NewRenoControlType -> "NewReno"
      [] t = BbrControlType -> "Bbr"
      [] OTHER -> ""

\* NewCubicSender: the cubic-family sender right after construction. It starts
\* in slow start with a positive window of whole datagrams.
NewCubicSender(clock, rttStats, initialMaxDatagramSize, reno, hystartType, tracer) ==
    [clock |-> clock,
     rttStats |-> rttStats,
     maxDatagramSize |-> initialMaxDatagramSize,
     reno |-> reno,
     hystart |-> hystartType,
     tracer |-> tracer,
     congestionWindow |-> InitialCongestionWindowPackets * initialMaxDatagramSize,
     phase |-> "slowstart"]

\* SendAlgorithmWithDebugInfos.InSlowStart
InSlowStart(s) == s.phase = "slowstart"

\* SendAlgorithmWithDebugInfos.InRecovery
InRecovery(s) == s.phase = "recovery"

\* SendAlgorithmWithDebugInfos.GetCongestionWindow
GetCongestionWindow(s) == s.congestionWindow

\* The factory with no default case: only NewReno gets a sender, any other
\* type the zero value.
NewCongestionHandler_NoDefault(rttStats, initialMaxDatagramSize, options, tracer) ==
    IF options.ControlType = NewRenoControlType
    THEN [log |-> "Congestion Control: NewReno with hystart: "
                    \o hystartTypeToString(options.Hystart),
          sender |-> NewCubicSender("DefaultClock", rttStats, initialMaxDatagramSize,
                                    TRUE, options.Hystart, tracer)]
    ELSE [log |-> "",
          sender |-> [clock |-> "", rttStats |-> "", maxDatagramSize |-> 0,
                      reno |-> FALSE, hystart |-> 0, tracer |-> Nil,
                      congestionWindow |-> 0, phase |-> ""]]

\* The factory with the 'use Reno' flags of its two cases exchanged.
NewCongestionHandler_FlagsSwapped(rttStats, initialMaxDatagramSize, options, tracer) ==
    IF options.ControlType = NewRenoControlType
    THEN [log |-> "Congestion Control: NewReno with hystart: "
                    \o hystartTypeToString(options.Hystart),
          sender |-> NewCubicSender("DefaultClock", rttStats, initialMaxDatagramSize,
                                    FALSE, options.Hystart, tracer)]
    ELSE [log |-> "Congestion Control: Cubic with hystart: "
                    \o hystartTypeToString(options.Hystart),
          sender |-> NewCubicSender("DefaultClock", rttStats, initialMaxDatagramSize,
                                    TRUE, options.Hystart, tracer)]

\* func NewCongestionHandler: the line it logs and the sender it returns.
NewCongestionHandler(rttStats, initialMaxDatagramSize, options, tracer) ==
    IF options.ControlType = NewRenoControlType
    THEN [log |-> "Congestion Control: NewReno with hystart: "
                    \o hystartTypeToString(options.Hystart),
          sender |-> NewCubicSender("DefaultClock", rttStats, initialMaxDatagramSize,
                                    TRUE, options.Hystart, tracer)]
    ELSE [log |-> "Congestion Control: Cubic with hystart: "
                    \o hystartTypeToString(options.Hystart),
          sender |-> NewCubicSender("DefaultClock", rttStats, initialMaxDatagramSize,
                                    FALSE, options.Hystart, tracer)]

\* A connection asks the factory for its congestion handler.
NewConnection ==
    /\ Len(senders) < MaxConns
    /\ \E options \in CongestionOptions, size \in DatagramSizes, rtt \in RTTStatsIds :
          LET made == NewCongestionHandler(rtt, size, options, Nil)
          IN senders' = Append(senders, [options |-> options,
                                         log |-> made.log,
                                         handler |-> made.sender])
    /\ UNCHANGED <<inputVars, mainVars, lis, out, webVars>>

\* The server process is not part of SpecCC.
InitCC ==
    /\ certFile = ""
    /\ keyFile = ""
    /\ fault = NoFault
    /\ MainParked
    /\ lis = [i \in Procs |-> Unborn]
    /\ senders = <<>>
    /\ WebIdle

NextCC == NewConnection

SpecCC == InitCC /\ [][NextCC]_vars

\* --------------------------------------------- the synthetic-content handler
\* Largest length asked of generatePRData in SpecPR, and the number of calls
\* SpecPR follows.
MaxLen == 4
MaxCalls == 3
\* Largest number of characters after the leading "/" of a request URI.
MaxURILen == 3

\* The multiplier and the modulus of line 63.
LehmerMultiplier == 48271
LehmerModulus == 2147483647

\* (x + y) % m for 0 <= x, y < m, in 32 bits.
AddMod(x, y, m) == IF x >= m - y THEN x - (m - y) ELSE x + y

\* x * y % m for 0 <= x < m, by doubling. Line 63 computes it in uint64,
\* where the product (below 2^47) does not wrap.
RECURSIVE MulMod(_, _, _)
MulMod(x, y, m) ==
    IF y = 0 THEN 0
    ELSE LET h == MulMod(x, y \div 2, m)
             d == AddMod(h, h, m)
         IN IF y % 2 = 1 THEN AddMod(d, x, m) ELSE d

\* byte(seed): the low 8 bits.
Byte(x) == x % 256

\* Lines 63-64: the body of the loop for index i (0-based); st holds the
\* locals seed and res.
PRBody(st, i) ==
    LET s == MulMod(st.seed, LehmerMultiplier, LehmerModulus)
    IN [seed |-> s, res |-> [st.res EXCEPT ![i + 1] = Byte(s)]]

\* Line 62: the iterations i = lo, ..., hi - 1 of the loop, in this order
\* (the range is run half by half, which keeps the evaluation shallow).
RECURSIVE PRLoop(_, _, _)
PRLoop(st, lo, hi) ==
    IF hi <= lo THEN st
    ELSE IF hi = lo + 1 THEN PRBody(st, lo)
    ELSE LET mid == (lo + hi) \div 2
             half == PRLoop(st, lo, mid)
         \* the seed is never 0 (the modulus is prime): the test only makes
         \* the first half be computed before the second starts
         IN IF half.seed > 0 THEN PRLoop(half, mid, hi) ELSE half

\* generatePRData whose seed starts from the requested length.
generatePRData_SeedFromLength(l) ==
    PRLoop([seed |-> l + 1, res |-> [k \in 1..l |-> 0]], 0, l).res

\* func generatePRData(l int) []byte, for l >= 0.
generatePRData(l) ==
    PRLoop([seed |-> 1, res |-> [k \in 1..l |-> 0]], 0, l).res

\* The characters of a request URI, and a URI as the sequence of its
\* characters.
Digits == {"0", "1", "2", "3", "4", "5", "6", "7", "8", "9"}
URIChars == {"/", "0", "1", "2", "-", "+", "a"}

\* The value of the digit c.
DigitValue(c) ==
    CASE c = "0" -> 0 [] c = "1" -> 1 [] c = "2" -> 2 [] c = "3" -> 3
      [] c = "4" -> 4 [] c = "5" -> 5 [] c = "6" -> 6 [] c = "7" -> 7
      [] c = "8" -> 8 [] c = "9" -> 9

\* The URIs with an empty segment ("//") never reach a handler: the mux
\* answers them with a redirect to the cleaned path.
HasEmptySegment(u) == \E k \in 1..(Len(u) - 1) : u[k] = "/" /\ u[k + 1] = "/"

\* Requests whose number is above maxSize, and the upload path.
LongURIs ==
    {<<"/", "1", "0", "7", "3", "7", "4", "1", "8", "2", "5">>,
     <<"/", "2", "1", "4", "7", "4", "8", "3", "6", "4", "9">>}
UploadURI == <<"/", "u", "p", "l", "o", "a", "d">>

\* r.RequestURI of the requests the mux hands to a handler.
RequestURIs ==
    {u \in UNION {{<<"/">> \o t : t \in [1..k -> URIChars]} : k \in 0..MaxURILen} :
        ~HasEmptySegment(u)}
    \cup LongURIs \cup {UploadURI}

\* Values of -www: no directory, a directory.
WwwValues == {"", "www"}

\* const maxSize = 1 << 30 (line 77).
maxSize == 1073741824

\* The numbers above 2^31 - 1 are all held as 2^31 - 1: the handler only
\* compares num with 0 and with maxSize before it converts it.
Saturated == 2147483647

\* One step of the digit loop of strconv.ParseUint in base 10.
Accumulate(n, d) ==
    IF n > (Saturated - d) \div 10 THEN Saturated ELSE n * 10 + d

\* strconv.ParseUint(s, 10, 64), for s of at most 18 digits (no range error).
RECURSIVE ParseUint(_, _, _)
ParseUint(s, k, n) ==
    IF k > Len(s) THEN [num |-> n, err |-> Nil]
    ELSE IF s[k] \notin Digits THEN [num |-> 0, err |-> "ErrSyntax"]
    ELSE ParseUint(s, k + 1, Accumulate(n, DigitValue(s[k])))

\* strconv.ParseInt(s, 10, 64): an optional sign, then at least one digit.
ParseInt(s) ==
    IF s = <<>> THEN [num |-> 0, err |-> "ErrSyntax"]
    ELSE LET neg == s[1] = "-"
             t == IF s[1] \in {"+", "-"} THEN Tail(s) ELSE s
             un == IF t = <<>> THEN [num |-> 0, err |-> "ErrSyntax"]
                   ELSE ParseUint(t, 1, 0)
         IN IF un.err # Nil THEN un
            ELSE [num |-> IF neg THEN 0 - un.num ELSE un.num, err |-> Nil]

\* strings.ReplaceAll(s, "/", "")
ReplaceAllSlashes(s) == SelectSeq(s, LAMBDA c : c # "/")

\* http.ResponseWriter: WriteHeader(code) and Write(p), which sends status 200
\* first when no header was written.
WriteHeader(w, code) == IF w.status = 0 THEN [w EXCEPT !.status = code] ELSE w
Write(w, p) == [WriteHeader(w, 200) EXCEPT !.body = @ \o p]

\* Lines 75-84: the handler of "/" when www is empty.
SyntheticHandler(w, uri) ==
    LET parsed == ParseInt(ReplaceAllSlashes(uri))
    IN IF parsed.err # Nil \/ parsed.num <= 0 \/ parsed.num > maxSize
       THEN WriteHeader(w, 400)
       ELSE Write(w, generatePRData(parsed.num))

\* Lines 89-114: the handler of "/upload", for a request that is no POST: it
\* writes the HTML form.
UploadHandler(w, uri) == Write(w, <<"form">>)

\* Lines 72-85, 89: the patterns of the mux. "/upload" matches that path
\* only, "/" every other.
setupHandler(www) ==
    [root |-> IF www # "" THEN "FileServer" ELSE "synthetic",
     upload |-> "upload"]

\* mux.ServeHTTP: the handler registered for the longest matching pattern.
Route(mux, uri) == IF uri = UploadURI THEN mux.upload ELSE mux.root

\* ------------------------------------------------------------------ SpecPR
\* The server process is not part of SpecPR, SpecWeb and SpecAck.
InitWeb ==
    /\ certFile = ""
    /\ keyFile = ""
    /\ fault = NoFault
    /\ MainParked
    /\ lis = [i \in Procs |-> Unborn]
    /\ senders = <<>>
    /\ WebIdle

\* generatePRData(l) is called.
CallGeneratePRData ==
    /\ Len(generated) < MaxCalls
    /\ \E l \in 0..MaxLen :
          generated' = Append(generated, [l |-> l, res |-> generatePRData(l)])
    /\ UNCHANGED <<inputVars, mainVars, lis, out, senders, served, pairs>>

NextPR == CallGeneratePRData

SpecPR == InitWeb /\ [][NextPR]_vars

\* ----------------------------------------------------------------- SpecWeb
\* SpecWeb follows one request: the handlers keep no state from one request
\* to the next.
\* A request for uri is answered by the handler setupHandler(www) built. A
\* request for the file server gets what the directory holds: found or not.
ServeRoot ==
    /\ served = NoRequest
    /\ \E www \in WwwValues, uri \in RequestURIs \ {UploadURI} :
          LET h == Route(setupHandler(www), uri)
              w == [status |-> 0, body |-> <<>>]
          IN \E found \in {200, 404} :
                LET r == IF h = "synthetic" THEN SyntheticHandler(w, uri)
                         ELSE WriteHeader(w, found)
                IN /\ h = "synthetic" => found = 200
                   /\ served' = [www |-> www, uri |-> uri, handler |-> h,
                                 status |-> r.status, body |-> r.body]
    /\ UNCHANGED <<inputVars, mainVars, lis, out, senders, generated, pairs>>

\* A GET request for "/upload".
ServeUpload ==
    /\ served = NoRequest
    /\ \E www \in WwwValues :
          LET h == Route(setupHandler(www), UploadURI)
              r == UploadHandler([status |-> 0, body |-> <<>>], UploadURI)
          IN served' = [www |-> www, uri |-> UploadURI, handler |-> h,
                        status |-> r.status, body |-> r.body]
    /\ UNCHANGED <<inputVars, mainVars, lis, out, senders, generated, pairs>>

NextWeb ==
    \/ ServeRoot
    \/ ServeUpload

SpecWeb == InitWeb /\ [][NextWeb]_vars

\* ------------------------------------------------ ackhandler.NewAckHandler
\* protocol.Perspective of the connections this process sets up: it is the
\* server of each of them.
Perspectives == {"server"}

\* The object a constructor allocates when n objects exist: objects are named
\* by their order of allocation.
NewObject(n) == n + 1

\* newSentPacketHandler: the sent-packet handler allocated as object id. It
\* keeps the RTT statistics it is given and builds the connection's
\* congestion strategy from the congestion options (section 4.2).
newSentPacketHandler(id, initialPacketNumber, initialMaxDatagramSize, rttStats, pers, congestion, tracer, logger) ==
    [id |-> id,
     kind |-> "sent",
     rttStats |-> rttStats,
     perspective |-> pers,
     options |-> congestion,
     congestion |-> NewCongestionHandler(rttStats, initialMaxDatagramSize,
                                         congestion, tracer).sender]

\* newReceivedPacketHandler: the received-packet handler allocated as object
\* id. It keeps a reference to the sent-packet handler and the RTT
\* statistics it is given.
newReceivedPacketHandler(id, sph, rttStats, logger, version) ==
    [id |-> id,
     kind |-> "received",
     sph |-> sph.id,
     rttStats |-> rttStats,
     version |-> version]

\* NewAckHandler that hands the received handler a sent handler of its own.
NewAckHandler_OwnSentHandler(heap, initialPacketNumber, initialMaxDatagramSize, rttStats, pers, tracer, logger, version, congestion) ==
    LET sph == newSentPacketHandler(NewObject(heap), initialPacketNumber,
                                    initialMaxDatagramSize, rttStats, pers,
                                    congestion, tracer, logger)
        other == newSentPacketHandler(NewObject(heap + 1), initialPacketNumber,
                                      initialMaxDatagramSize, rttStats, pers,
                                      congestion, tracer, logger)
    IN [sent |-> sph,
        received |-> newReceivedPacketHandler(NewObject(heap + 2), other, rttStats,
                                              logger, version),
        heap |-> heap + 3]

\* func NewAckHandler, called when heap objects exist: the pair it returns
\* and the number of objects that exist then.
NewAckHandler(heap, initialPacketNumber, initialMaxDatagramSize, rttStats, pers, tracer, logger, version, congestion) ==
    LET sph == newSentPacketHandler(NewObject(heap), initialPacketNumber,
                                    initialMaxDatagramSize, rttStats, pers,
                                    congestion, tracer, logger)
    IN [sent |-> sph,
        received |-> newReceivedPacketHandler(NewObject(heap + 1), sph, rttStats,
                                              logger, version),
        heap |-> heap + 2]

\* The number of objects the calls made so far have allocated.
HeapSize == IF pairs = <<>> THEN 0 ELSE pairs[Len(pairs)].heap

\* A connection is set up: it calls NewAckHandler with its RTT statistics.
CallNewAckHandler ==
    /\ Len(pairs) < MaxConns
    /\ \E rtt \in RTTStatsIds, size \in DatagramSizes, pers \in Perspectives,
          options \in CongestionOptions :
          LET made == NewAckHandler(HeapSize, 0, size, rtt, pers, Nil,
                                    "DefaultLogger", 1, options)
          IN pairs' = Append(pairs, [rttStats |-> rtt, options |-> options,
                                     sent |-> made.sent,
                                     received |-> made.received,
                                     heap |-> made.heap])
    /\ UNCHANGED <<inputVars, mainVars, lis, out, senders, generated, served>>

NextAck == CallNewAckHandler

SpecAck == InitWeb /\ [][NextAck]_vars

\* ------------------------------------------------------------------ claims
\* ListenAndServe has returned to the goroutine that called it.
Returned(i) == lis[i].pc \in {"returned", "wgdone", "done"}

\* The listener's select received the stream server's / the datagram
\* server's result.
ReceivedH(i) == lis[i].hState = "done"
ReceivedQ(i) == lis[i].qState = "done"

\* Index of the first occurrence of c in the sequence s, 0 when there is none.
Pos(s, c) ==
    IF \E k \in 1..Len(s) : s[k] = c
    THEN CHOOSE k \in 1..Len(s) : s[k] = c /\ \A m \in 1..(k - 1) : s[m] # c
    ELSE 0

\* The calls of listener i after its first call c.
CallsAfter(i, c) == SubSeq(lis[i].calls, Pos(lis[i].calls, c) + 1, Len(lis[i].calls))

DeferredCalls == {"tlsConn.Close", "tcpConn.Close", "udpConn.Close"}

\* C1: when the select received the stream server's result, quicServer.Close
\* was called before ListenAndServe returned, and the value returned is the
\* stream server's result (nil included).
C1_StreamFirstClosesQuic ==
    \A i \in Procs :
        (ReceivedH(i) /\ Returned(i)) =>
            /\ Pos(lis[i].calls, "recv hErr") > 0
            /\ Pos(lis[i].calls, "recv hErr") < Pos(lis[i].calls, "quicServer.Close")
            /\ Pos(lis[i].calls, "quicServer.Close") < Pos(lis[i].calls, "return")
            /\ lis[i].err = lis[i].hVal

\* C1 witness: the call returned nil after a clean stop of the stream server,
\* having closed the datagram server.
C1_Witness ==
    \E i \in Procs :
        /\ ReceivedH(i) /\ Returned(i)
        /\ lis[i].hVal = Nil /\ lis[i].err = Nil
        /\ Pos(lis[i].calls, "quicServer.Close") > 0

\* C2: when the select received the datagram server's result, ListenAndServe
\* returns that result with nothing but its deferred socket closes in
\* between, and no stop or close of the stream server object is ever called.
C2_DatagramFirstReturnsAtOnce ==
    \A i \in Procs :
        ReceivedQ(i) =>
            /\ Pos(lis[i].calls, "httpServer.Close") = 0
            /\ Pos(lis[i].calls, "httpServer.Shutdown") = 0
            /\ Pos(lis[i].calls, "quicServer.Close") = 0
            /\ \A k \in 1..Len(CallsAfter(i, "recv qErr")) :
                   CallsAfter(i, "recv qErr")[k] \in DeferredCalls \cup {"return"}
            /\ lis[i].pc \in {"return", "returned"}
            /\ lis[i].err = lis[i].qVal

\* C2 witness: the call returned the datagram server's error while the stream
\* server was still serving.
C2_Witness ==
    \E i \in Procs :
        /\ ReceivedQ(i) /\ Returned(i)
        /\ lis[i].err = "errQUIC"
        /\ lis[i].hState = "running"

\* C3 as claimed: when the datagram server has failed (its error waits on
\* qErr), the step by which the listener leaves the select returns the
\* datagram error, whatever the stream server has done.
C3_DatagramErrorNeverMasked ==
    [][\A i \in Procs :
          (/\ lis[i].pc = "select"
           /\ lis[i].qState = "sending"
           /\ lis[i].qVal # Nil
           /\ lis'[i].pc # "select")
          => lis'[i].err = lis[i].qVal]_vars

\* C3 as amended: when the datagram server has failed and the stream server
\* has not returned, the listener returns the datagram error; when the stream
\* server's result waits on hErr too, the select takes either and the
\* listener returns the one it took.
C3_DatagramErrorUnlessStreamRaced ==
    [][\A i \in Procs :
          (/\ lis[i].pc = "select"
           /\ lis[i].qState = "sending"
           /\ lis[i].qVal # Nil
           /\ lis'[i].pc # "select")
          => IF lis[i].hState = "sending"
             THEN \/ lis'[i].err = lis[i].qVal /\ lis'[i].qState = "done"
                  \/ lis'[i].err = lis[i].hVal /\ lis'[i].hState = "done"
             ELSE lis'[i].err = lis[i].qVal /\ lis'[i].qState = "done"]_vars

\* C3 witness: both servers had returned, and the listener returned the
\* datagram server's error.
C3_Witness ==
    \E i \in Procs :
        /\ Returned(i)
        /\ ReceivedQ(i)
        /\ lis[i].err = "errQUIC"
        /\ lis[i].hState = "sending"

\* C4: once ListenAndServe has returned, none of the sockets it opened is
\* still open, whichever return path was taken.
C4_SocketsClosedOnReturn ==
    \A i \in Procs :
        Returned(i) =>
            /\ lis[i].udpConn # "open"
            /\ lis[i].tcpConn # "open"
            /\ lis[i].tlsConn # "open"
            /\ lis[i].defers = <<>>

\* C4 witness: the second socket failed to open and the call returned with
\* the UDP socket, which it had opened, closed.
C4_Witness ==
    \E i \in Procs :
        /\ Returned(i)
        /\ lis[i].udpConn = "closed" /\ lis[i].tcpConn = "none"
        /\ lis[i].err \in {"errResolveTCPAddr", "errListenTCP"}

\* All the listeners main launches have been launched and have returned.
AllReturned ==
    /\ mainpc \in {"loop", "wait", "done"}
    /\ next > Len(bs)
    /\ \A i \in 1..Len(bs) : Returned(i)

\* C5: main is past wg.Wait() (and the process has exited normally) only when
\* every launched listener has returned; and once all of them have returned,
\* main gets past wg.Wait().
C5_WaitsForAllListeners ==
    /\ [](mainpc = "done" \/ exitCode = 0 => AllReturned)
    /\ (AllReturned ~> mainpc = "done")

\* C5 witness: main returned after two listeners had returned.
C5_Witness ==
    /\ mainpc = "done"
    /\ Len(bs) >= 2
    /\ \A i \in 1..Len(bs) : lis[i].pc = "done"

\* C6 as claimed: once every goroutine has called ListenAndServe, each bind
\* target is the addr argument of exactly one call.
C6_OneCallPerTarget ==
    (/\ mainpc \in {"loop", "wait", "done"}
     /\ \A i \in 1..Len(bs) : lis[i].pc \notin {"unborn", "start"})
    => \A k \in 1..Len(bs) :
           Cardinality({i \in 1..Len(bs) : lis[i].addr = bs[k]}) = 1

\* C7 as claimed: with valid credentials and one faulty bind target, every
\* goroutine launched for another target has started both its servers once it
\* is past the opening of its sockets.
C7_SiblingsReachServing ==
    (/\ certFile = "valid" /\ keyFile = "valid"
     /\ fault # NoFault
     /\ mainpc \in {"loop", "wait", "done"})
    => \A i \in 1..Len(bs) :
           (lis[i].pc \notin {"unborn", "start"} /\ fault.addr # bs[i])
           => lis[i].hState # "idle" /\ lis[i].qState # "idle"

\* The -congestion or the -hystart value is no key of its table.
UnknownName ==
    \/ congestionAlgo \notin DOMAIN congestionMap
    \/ hystart \notin DOMAIN hystartMap

\* C8: with an unknown congestion or slow-start name no goroutine is ever
\* launched and no socket opened, main never gets to the WaitGroup, the
\* process never exits with status 0, and main is never stuck before it has
\* exited with status 1.
C8_UnknownNameExitsBeforeLaunch ==
    UnknownName =>
        /\ \A i \in Procs : lis[i] = Unborn
        /\ mainpc \in {"checkcert", "checkkey", "binds", "congestion",
                       "hystart", "exited"}
        /\ exitCode \in {Running, 1}
        /\ (mainpc = "exited" <=> exitCode = 1)
        /\ (mainpc = "exited" \/ ENABLED (Alive /\ MainStep))

\* C8 witness: the credentials passed their checks and the process exited
\* with status 1 at a table lookup.
C8_Witness ==
    /\ UnknownName
    /\ certFile \in {"valid", "invalid"} /\ keyFile \in {"valid", "invalid"}
    /\ mainpc = "exited" /\ exitCode = 1

\* A certificate or key path that is empty, names no file, or names a file
\* that is no usable key pair.
CredentialError == certFile # "valid" \/ keyFile # "valid"

\* C9 as claimed: with any credential error no goroutine is ever launched and
\* the process never exits with status 0.
C9_CredentialErrorExitsBeforeLaunch ==
    CredentialError =>
        /\ \A i \in Procs : lis[i] = Unborn
        /\ exitCode # 0

\* The pairs the server's tables can produce.
ValidPair(options) ==
    /\ \E n \in DOMAIN congestionMap : congestionMap[n] = options.ControlType
    /\ \E n \in DOMAIN hystartMap : hystartMap[n] = options.Hystart

\* C10: every handler the factory built for a valid pair is in slow start and
\* has a positive congestion window, no event having been delivered to it.
C10_FreshHandlerInSlowStart ==
    \A k \in 1..Len(senders) :
        ValidPair(senders[k].options) =>
            /\ InSlowStart(senders[k].handler)
            /\ GetCongestionWindow(senders[k].handler) > 0

\* C10 witness: handlers were built for NewReno and for Cubic.
C10_Witness ==
    /\ \E k \in 1..Len(senders) :
          /\ senders[k].options.ControlType = NewRenoControlType
          /\ InSlowStart(senders[k].handler)
    /\ \E k \in 1..Len(senders) :
          /\ senders[k].options.ControlType = CubicControlType
          /\ senders[k].options.Hystart = HystartTypePlusPlus
          /\ GetCongestionWindow(senders[k].handler) > 0

\* One step of the Lehmer generator with multiplier 48271 and modulus
\* 2^31 - 1, by Schrage's decomposition of the modulus.
LehmerStep(x) ==
    LET q == LehmerModulus \div LehmerMultiplier
        r == LehmerModulus % LehmerMultiplier
        t == LehmerMultiplier * (x % q) - r * (x \div q)
    IN IF t < 0 THEN t + LehmerModulus ELSE t

\* The Lehmer state after k steps from seed 1.
RECURSIVE LehmerState(_)
LehmerState(k) == IF k = 0 THEN 1 ELSE LehmerStep(LehmerState(k - 1))

\* C11: every call of generatePRData(n) returns n bytes, byte i (from 0)
\* being the low 8 bits of the Lehmer state after i + 1 steps; two calls with
\* the same length return the same bytes whatever was called in between, and
\* the result for n is the first n bytes of the result for n + 1.
C11_GeneratorPureAndPrefixStable ==
    \A j \in 1..Len(generated) :
        /\ Len(generated[j].res) = generated[j].l
        /\ \A i \in 0..(generated[j].l - 1) :
               generated[j].res[i + 1] = LehmerState(i + 1) % 256
        /\ \A k \in 1..Len(generated) :
               /\ generated[k].l = generated[j].l
                      => generated[k].res = generated[j].res
               /\ generated[k].l = generated[j].l + 1
                      => SubSeq(generated[k].res, 1, generated[j].l) = generated[j].res

\* C11 witness: a length was asked twice with a call for the next length in
\* between.
C11_Witness ==
    /\ Len(generated) = 3
    /\ generated[1].l = 3 /\ generated[2].l = 4 /\ generated[3].l = 3
    /\ generated[1].res = <<143, 226, 70>>

\* The path value of a request: what follows the leading "/".
PathValue(uri) == Tail(uri)

\* p is a decimal integer: digits, after an optional sign.
IsDecimalInteger(p) ==
    LET ds == IF p # <<>> /\ p[1] \in {"+", "-"} THEN Tail(p) ELSE p
    IN ds # <<>> /\ \A k \in 1..Len(ds) : ds[k] \in Digits

\* The number the digits ds write (2^31 - 1 standing for all above it).
RECURSIVE DigitsValue(_)
DigitsValue(ds) ==
    IF ds = <<>> THEN 0
    ELSE LET front == DigitsValue(SubSeq(ds, 1, Len(ds) - 1))
             d == DigitValue(ds[Len(ds)])
         IN IF front > (Saturated - d) \div 10 THEN Saturated ELSE 10 * front + d

\* The number the decimal integer p writes.
DecimalValue(p) ==
    IF p[1] = "-" THEN 0 - DigitsValue(Tail(p))
    ELSE IF p[1] = "+" THEN DigitsValue(Tail(p))
    ELSE DigitsValue(p)

\* C12 as claimed: with no static directory, the answer to a request is
\* status 200 and a body of n bytes when the path value is a decimal integer n
\* with 1 <= n <= 2^30, and status 400 with an empty body for every other
\* path value.
C12_SyntheticAnswersDecimalPathsOnly ==
    served.handler = "synthetic" =>
        LET p == PathValue(served.uri)
        IN IF IsDecimalInteger(p) /\ 1 <= DecimalValue(p) /\ DecimalValue(p) <= maxSize
           THEN served.status = 200 /\ Len(served.body) = DecimalValue(p)
           ELSE served.status = 400 /\ served.body = <<>>

\* C13: the sender the factory built has the 'use Reno' flag set exactly when
\* the control type asked for is NewReno, it was handed options.Hystart
\* unchanged whatever the control type, and the factory returned a sender (it
\* has no error result) for every control type.
C13_RenoFlagIffNewReno ==
    \A k \in 1..Len(senders) :
        /\ senders[k].handler.reno
               = (senders[k].options.ControlType = NewRenoControlType)
        /\ senders[k].handler.hystart = senders[k].options.Hystart
        /\ senders[k].handler.phase # ""
        /\ senders[k].log # ""

\* C13 witness: a Bbr request got the cubic sender without the Reno flag, a
\* NewReno request the sender with it, each with its own slow-start variant.
C13_Witness ==
    /\ \E k \in 1..Len(senders) :
          /\ senders[k].options = [ControlType |-> BbrControlType,
                                   Hystart |-> HystartTypeNone]
          /\ ~senders[k].handler.reno
          /\ senders[k].handler.hystart = HystartTypeNone
    /\ \E k \in 1..Len(senders) :
          /\ senders[k].options = [ControlType |-> NewRenoControlType,
                                   Hystart |-> HystartTypePlusPlus]
          /\ senders[k].handler.reno
          /\ senders[k].handler.hystart = HystartTypePlusPlus

\* The errors of the steps from Unbound to Bound, and the call each comes from.
OpenErrors ==
    {"errLoadX509KeyPair", "errResolveUDPAddr", "errListenUDP",
     "errResolveTCPAddr", "errListenTCP"}
StepOf(e) ==
    CASE e = "errLoadX509KeyPair" -> "LoadX509KeyPair"
      [] e = "errResolveUDPAddr" -> "ResolveUDPAddr"
      [] e = "errListenUDP" -> "ListenUDP"
      [] e = "errResolveTCPAddr" -> "ResolveTCPAddr"
      [] e = "errListenTCP" -> "ListenTCP"

\* Listener i has called ListenAndServe.
Launched(i) == lis[i].pc \notin {"unborn", "start"}

\* The servers of listener i were started.
ServersStarted(i) == lis[i].hState # "idle" \/ lis[i].qState # "idle"

\* The steps of listener i so far were made in the fixed order, and the
\* first failure ended the call with that failure as its result.
InOrderOrAborted(i) ==
    LET c == lis[i].calls
    IN /\ lis[i].udpConn # "none" =>
              /\ certFile = "valid" /\ keyFile = "valid"
              /\ 0 < Pos(c, "LoadX509KeyPair")
              /\ Pos(c, "LoadX509KeyPair") < Pos(c, "ListenUDP")
       /\ Pos(c, "ListenTCP") > 0 =>
              /\ lis[i].udpConn # "none"
              /\ Pos(c, "ListenUDP") < Pos(c, "ListenTCP")
       /\ ServersStarted(i) =>
              /\ lis[i].udpConn # "none" /\ lis[i].tcpConn # "none"
              /\ Pos(c, "ListenTCP") < Pos(c, "httpServer.Serve")
              /\ Pos(c, "ListenTCP") < Pos(c, "quicServer.Serve")
              /\ \A k \in FaultKinds : ~Faulty(lis[i].addr, k)
       /\ (Launched(i) /\ ~ServersStarted(i)) =>
              /\ Returned(i)
              /\ lis[i].err \in OpenErrors
              /\ \A k \in 1..Len(CallsAfter(i, StepOf(lis[i].err))) :
                     CallsAfter(i, StepOf(lis[i].err))[k] \in DeferredCalls \cup {"return"}
       /\ (Launched(i) /\ (certFile # "valid" \/ keyFile # "valid")) =>
              /\ lis[i].err = "errLoadX509KeyPair"
              /\ lis[i].udpConn = "none" /\ lis[i].tcpConn = "none"
       /\ (Launched(i) /\ \E k \in FaultKinds : Faulty(lis[i].addr, k)) =>
              lis[i].err \in OpenErrors /\ ~ServersStarted(i)

\* The step in which listener i returns a failure of the opening steps
\* changes nothing of another listener nor of main.
FailureIsLocal(i) ==
    (~Returned(i) /\ Returned(i)' /\ lis'[i].err \in OpenErrors)
    => /\ \A j \in Procs \ {i} : lis'[j] = lis[j]
       /\ UNCHANGED <<mainVars, out>>

\* C14: ListenAndServe loads the credentials before it opens a socket, opens
\* the datagram socket before the stream socket, starts its servers only
\* with both sockets open, and returns the first failure of these steps as
\* its result, which changes nothing of the other listeners.
C14_BoundInOrderOrAbort ==
    /\ [](\A i \in Procs : InOrderOrAborted(i))
    /\ [][\A i \in Procs : FailureIsLocal(i)]_vars

\* C14 witness: with two listeners launched, one returned the failure of its
\* stream socket (its datagram socket had been opened, and is closed) while
\* the other one serves.
C14_Witness ==
    \E i, j \in Procs :
        /\ Returned(i) /\ lis[i].err = "errListenTCP"
        /\ lis[i].udpConn = "closed"
        /\ ~ServersStarted(i)
        /\ lis[j].pc = "select"

\* The lines of the process output that goroutine i wrote.
ReportsOf(i) == {k \in 1..Len(out) : out[k][1] = i}

\* Listener i is counted as finished: its goroutine has called wg.Done().
Counted(i) == lis[i].pc = "done"

\* C15: a listener that returned a non-nil error has written it to the
\* output, once, by the time it is counted as finished, and main gets past
\* wg.Wait() only with every listener counted; a listener that returned nil
\* writes nothing, and nothing is written before a listener has returned.
C15_ErrorReportedOnceBeforeDone ==
    /\ \A i \in Procs :
          /\ lis[i].pc \in {"wgdone", "done"} =>
                 /\ Cardinality(ReportsOf(i)) = IF lis[i].err # Nil THEN 1 ELSE 0
                 /\ \A k \in ReportsOf(i) : out[k][2] = lis[i].err
          /\ lis[i].pc \notin {"wgdone", "done"} => ReportsOf(i) = {}
    /\ mainpc \in {"loop", "wait", "done"} =>
          wg = Len(bs) - Cardinality({i \in Procs : Counted(i)})
    /\ mainpc = "done" => \A i \in 1..Len(bs) : Counted(i)

\* C15 witness: main returned after one listener had reported its error and
\* another one had returned nil, reporting nothing.
C15_Witness ==
    /\ mainpc = "done"
    /\ Len(out) = 1
    /\ \E i, j \in Procs :
          /\ Counted(i) /\ lis[i].err = "errQUIC" /\ out[1] = <<i, "errQUIC">>
          /\ Counted(j) /\ lis[j].err = Nil /\ ReportsOf(j) = {}

\* The handlers (objects) of the k-th pair.
HandlersOf(k) == {pairs[k].sent.id, pairs[k].received.id}

\* C16: every call of NewAckHandler returned one sent and one received
\* handler, two distinct new objects; the received handler refers to the sent
\* handler of its own pair; both hold the RTT statistics of the call; the
\* congestion options went to the sent handler, which holds the pair's one
\* congestion strategy, and to nothing else; and no handler is in two pairs.
C16_OnePairPerCall ==
    \A k \in 1..Len(pairs) :
        /\ pairs[k].sent.kind = "sent" /\ pairs[k].received.kind = "received"
        /\ Cardinality(HandlersOf(k)) = 2
        /\ pairs[k].heap = (IF k = 1 THEN 0 ELSE pairs[k - 1].heap) + 2
        /\ pairs[k].received.sph = pairs[k].sent.id
        /\ pairs[k].sent.rttStats = pairs[k].rttStats
        /\ pairs[k].received.rttStats = pairs[k].rttStats
        /\ pairs[k].sent.options = pairs[k].options
        /\ pairs[k].sent.congestion.rttStats = pairs[k].rttStats
        /\ "congestion" \notin DOMAIN pairs[k].received
        /\ "options" \notin DOMAIN pairs[k].received
        /\ \A j \in 1..Len(pairs) :
               j # k => /\ HandlersOf(j) \cap HandlersOf(k) = {}
                        /\ pairs[j].received.sph \notin HandlersOf(k)

\* C16 witness: two connections with the same RTT statistics object and the
\* same options got two pairs with nothing in common.
C16_Witness ==
    /\ Len(pairs) = 2
    /\ pairs[1].rttStats = pairs[2].rttStats
    /\ pairs[1].options = pairs[2].options
    /\ pairs[1].received.sph = pairs[1].sent.id
    /\ pairs[2].received.sph = pairs[2].sent.id
    /\ HandlersOf(1) \cap HandlersOf(2) = {}

\* The receives listener i has made from hErr and qErr.
Receives(i) ==
    {k \in 1..Len(lis[i].calls) : lis[i].calls[k] \in {"recv hErr", "recv qErr"}}

\* Listener i has left its select.
PastSelect(i) == ServersStarted(i) /\ lis[i].pc # "select"

\* Once listener i has left its select, a server goroutine that waits to
\* send goes on waiting, and none gets its result received.
SenderStaysBlocked(i) ==
    PastSelect(i) =>
        /\ lis[i].hState = "sending" =>
               lis'[i].hState = "sending" /\ lis'[i].hVal = lis[i].hVal
        /\ lis[i].qState = "sending" =>
               lis'[i].qState = "sending" /\ lis'[i].qVal = lis[i].qVal
        /\ lis'[i].hState = "done" => lis[i].hState = "done"
        /\ lis'[i].qState = "done" => lis[i].qState = "done"

\* C17: a call of ListenAndServe receives one server result, from hErr or
\* from qErr and never from both; when the other server ends afterwards, the
\* goroutine that reports its result waits on its send from then on and does
\* not end.
C17_OneResultConsumed ==
    /\ [](\A i \in Procs :
            /\ Cardinality(Receives(i)) <= 1
            /\ ~(ReceivedH(i) /\ ReceivedQ(i))
            /\ PastSelect(i) =>
                   /\ Cardinality(Receives(i)) = 1
                   /\ ReceivedH(i) \/ ReceivedQ(i))
    /\ [][\A i \in Procs : SenderStaysBlocked(i)]_vars

\* C17 witness: the listener returned the stream server's result and closed
\* the datagram server, whose goroutine now waits on qErr with its result.
C17_Witness ==
    \E i \in Procs :
        /\ Returned(i) /\ ReceivedH(i)
        /\ Pos(lis[i].calls, "quicServer.Close") > 0
        /\ lis[i].qState = "sending"

\* C18: once ListenAndServe has returned with its servers started, the TLS
\* listener and the TCP socket are closed and the stream server can accept
\* no connection, whichever server ended first; when it was the datagram
\* server, no stop of the stream server was called.
C18_NoAcceptAfterReturn ==
    \A i \in Procs :
        (Returned(i) /\ ServersStarted(i)) =>
            /\ lis[i].tlsConn = "closed"
            /\ lis[i].tcpConn = "closed"
            /\ ~CanAccept(lis[i])
            /\ ReceivedQ(i) =>
                   /\ Pos(lis[i].calls, "httpServer.Close") = 0
                   /\ Pos(lis[i].calls, "httpServer.Shutdown") = 0

\* C18 witness: the datagram server ended cleanly first; the listener has
\* returned, the stream server's Serve has not, and its listener is closed.
C18_Witness ==
    \E i \in Procs :
        /\ Returned(i) /\ ReceivedQ(i) /\ lis[i].qVal = Nil
        /\ lis[i].hState = "running"
        /\ lis[i].tlsConn = "closed"
        /\ ~CanAccept(lis[i])

\* The calls of listener i up to its return end with seq.
CallsEndWith(i, seq) ==
    /\ Len(lis[i].calls) >= Len(seq)
    /\ SubSeq(lis[i].calls, Len(lis[i].calls) - Len(seq) + 1, Len(lis[i].calls)) = seq

\* C19: a listener that returns from Serving releases in the reverse order of
\* acquisition: it acquired the UDP socket, the TCP socket, the TLS listener
\* in this order and, after its receive, closes the TLS listener, the TCP
\* socket, the UDP socket in this order, each once, before it returns; in
\* the stream-first branch quicServer.Close comes before these closes; and
\* while it waits in the select all its sockets are open and none was closed.
C19_ReleaseInReverseOrder ==
    \A i \in Procs :
        LET c == lis[i].calls
        IN /\ (Returned(i) /\ ServersStarted(i)) =>
                  /\ Pos(c, "ListenUDP") < Pos(c, "ListenTCP")
                  /\ Pos(c, "ListenTCP") < Pos(c, "NewListener")
                  /\ CallsEndWith(i, <<"tlsConn.Close", "tcpConn.Close",
                                       "udpConn.Close", "return">>)
                  /\ \A d \in DeferredCalls :
                         Cardinality({k \in 1..Len(c) : c[k] = d}) = 1
                  /\ ReceivedH(i) =>
                         /\ Pos(c, "recv hErr") < Pos(c, "quicServer.Close")
                         /\ Pos(c, "quicServer.Close") < Pos(c, "tlsConn.Close")
                         /\ Pos(c, "quicServer.Close") < Pos(c, "udpConn.Close")
                  /\ ReceivedQ(i) =>
                         Pos(c, "recv qErr") < Pos(c, "tlsConn.Close")
           /\ lis[i].pc = "select" =>
                  /\ lis[i].udpConn = "open"
                  /\ lis[i].tcpConn = "open"
                  /\ lis[i].tlsConn = "open"
                  /\ \A d \in DeferredCalls : Pos(c, d) = 0

\* C19 witness: the stream server failed first; the listener closed the
\* datagram server, then the TLS listener, the TCP and the UDP socket.
C19_Witness ==
    \E i \in Procs :
        /\ Returned(i) /\ ReceivedH(i) /\ lis[i].err = "errHTTP"
        /\ CallsEndWith(i, <<"recv hErr", "quicServer.Close", "tlsConn.Close",
                             "tcpConn.Close", "udpConn.Close", "return">>)

====
